---- MODULE Spec2Model ----
(***************************************************************************)
(* Binary codec helpers of core/src/types/helpers.rs: error translation,   *)
(* fixed-width little-endian scalar encode/decode and the length-prefixed  *)
(* optional-array codec, over streams given by std::io::Write / Read.      *)
(*                                                                         *)
(* Machine integers.  u8, i16, u16 and i32 are modelled by the integer     *)
(* they denote.  The model checker's integers are 32-bit, so a u32, i64 or *)
(* u64 value is a tuple of 16-bit limbs, least significant limb first; the *)
(* most significant limb of an i64 is signed (-32768..32767), so the tuple *)
(* <<l1,..,ln>> denotes l1 + l2*2^16 + ... + ln*2^(16(n-1)).  An f32 / f64 *)
(* is its IEEE-754 bit pattern (f32::to_bits), held like a u32 / u64.      *)
(***************************************************************************)
EXTENDS Integers, Sequences, FiniteSets, TLC

VARIABLES stream, call

vars == <<stream, call>>

-----------------------------------------------------------------------------
(* Bounds of the model *)

\* longest array handed to write_array
MaxLen == 2

\* largest capacity of a bounded sink, in bytes
MaxCap == 6

-----------------------------------------------------------------------------
(* Result types *)

BAD_ENCODING_ERROR == "BadEncoding"

BAD_DECODING_ERROR == "BadDecoding"

\* EncodingResult<T>
Ok(v) == [ok |-> TRUE, val |-> v, err |-> "none"]

Err(e) == [ok |-> FALSE, val |-> 0, err |-> e]

\* std::io::Result<T>
IoOk(v) == [ok |-> TRUE, val |-> v, kind |-> "none"]

IoErr(k) == [ok |-> FALSE, val |-> 0, kind |-> k]

\* the () of Result<()>
Unit == "unit"

\* Option<Vec<T>>
None == [some |-> FALSE, vec |-> <<>>]

Some(v) == [some |-> TRUE, vec |-> v]

\* io::ErrorKind values a failed write can carry
WriteErrorKinds == {"WriteZero", "BrokenPipe"}

\* io::ErrorKind values a failed read_exact can carry
ReadErrorKinds == {"UnexpectedEof", "ConnectionReset"}

-----------------------------------------------------------------------------
(* Error translation *)

\* mutant: the write side reports the read side's error
process_encode_io_result_Decoding(result) ==
    IF ~result.ok THEN Err(BAD_DECODING_ERROR) ELSE Ok(result.val)

process_encode_io_result(result) ==
    IF ~result.ok THEN Err(BAD_ENCODING_ERROR) ELSE Ok(result.val)

process_decode_io_result(result) ==
    IF ~result.ok THEN Err(BAD_DECODING_ERROR) ELSE Ok(result.val)

-----------------------------------------------------------------------------
(* Streams *)

Min(a, b) == IF a < b THEN a ELSE b

Zeros(n) == [i \in 1..n |-> 0]

\* A writer: the bytes it holds, and what it does when it cannot take a whole
\* buffer.  An unbounded writer (Vec<u8>) takes everything.  A bounded one with
\* fault "short" takes what fits and reports that count (&mut [u8],
\* Cursor<&mut [u8]>, a socket); with an error kind as fault it takes nothing
\* and fails with that kind.
Sink(buf, bounded, cap, fault) ==
    [kind |-> "sink", buf |-> buf, bounded |-> bounded, cap |-> cap, fault |-> fault]

\* A reader: the bytes it delivers, how many were consumed, and the error
\* kind it fails with once they run out.
Source(data, pos, eof) ==
    [kind |-> "source", data |-> data, pos |-> pos, eof |-> eof]

\* Write::write(&buf): io::Result<usize>, a single call, which may take fewer
\* bytes than offered.
StreamWrite(s, bytes) ==
    LET room == IF s.bounded THEN Min(Len(bytes), s.cap - Len(s.buf)) ELSE Len(bytes)
    IN  IF room = Len(bytes)
        THEN [res |-> IoOk(Len(bytes)), stream |-> [s EXCEPT !.buf = @ \o bytes]]
        ELSE IF s.fault = "short"
        THEN [res |-> IoOk(room),
              stream |-> [s EXCEPT !.buf = @ \o SubSeq(bytes, 1, room)]]
        ELSE [res |-> IoErr(s.fault), stream |-> s]

\* Read::read_exact(&mut buf) into a zeroed buffer of n bytes: io::Result<()>.
\* On a short read the buffer holds the bytes that were there, then zeros.
StreamReadExact(s, n) ==
    LET avail == Len(s.data) - s.pos
    IN  IF avail >= n
        THEN [res |-> IoOk(Unit),
              buf |-> SubSeq(s.data, s.pos + 1, s.pos + n),
              stream |-> [s EXCEPT !.pos = @ + n]]
        ELSE [res |-> IoErr(s.eof),
              buf |-> SubSeq(s.data, s.pos + 1, Len(s.data)) \o Zeros(n - avail),
              stream |-> [s EXCEPT !.pos = Len(s.data)]]

-----------------------------------------------------------------------------
(* byteorder::LittleEndian *)

\* the two bytes of a 16-bit limb, low byte first (\div and % round down, so a
\* negative limb gives its two's-complement bytes)
LimbBytes(l) == <<l % 256, (l \div 256) % 256>>

Limb(lo, hi) == lo + 256 * hi

SignedLimb(lo, hi) == lo + 256 * (IF hi >= 128 THEN hi - 256 ELSE hi)

RECURSIVE WideBytes(_)
WideBytes(v) == IF v = <<>> THEN <<>> ELSE LimbBytes(Head(v)) \o WideBytes(Tail(v))

UnsignedWide(b) == [j \in 1..(Len(b) \div 2) |-> Limb(b[2 * j - 1], b[2 * j])]

SignedWide(b) ==
    [j \in 1..(Len(b) \div 2) |->
        IF j = Len(b) \div 2 THEN SignedLimb(b[2 * j - 1], b[2 * j])
                             ELSE Limb(b[2 * j - 1], b[2 * j])]

LittleEndian_write_i16(value) == <<value % 256, (value \div 256) % 256>>

LittleEndian_write_u16(value) == <<value % 256, (value \div 256) % 256>>

\* mutant: most significant byte first
LittleEndian_write_i32_BigEndian(value) ==
    <<(value \div 16777216) % 256, (value \div 65536) % 256,
      (value \div 256) % 256, value % 256>>

LittleEndian_write_i32(value) ==
    <<value % 256, (value \div 256) % 256,
      (value \div 65536) % 256, (value \div 16777216) % 256>>

LittleEndian_write_u32(value) == WideBytes(value)

LittleEndian_write_i64(value) == WideBytes(value)

LittleEndian_write_u64(value) == WideBytes(value)

LittleEndian_write_f32(value) == LittleEndian_write_u32(value)

LittleEndian_write_f64(value) == LittleEndian_write_u64(value)

LittleEndian_read_u16(buf) == buf[1] + 256 * buf[2]

LittleEndian_read_i16(buf) ==
    buf[1] + 256 * (IF buf[2] >= 128 THEN buf[2] - 256 ELSE buf[2])

LittleEndian_read_i32(buf) ==
    buf[1] + 256 * buf[2] + 65536 * buf[3]
        + 16777216 * (IF buf[4] >= 128 THEN buf[4] - 256 ELSE buf[4])

LittleEndian_read_u32(buf) == UnsignedWide(buf)

\* mutant: the top bit is not taken as the sign
LittleEndian_read_i64_Unsigned(buf) == UnsignedWide(buf)

LittleEndian_read_i64(buf) == SignedWide(buf)

LittleEndian_read_u64(buf) == UnsignedWide(buf)

LittleEndian_read_f32(buf) == LittleEndian_read_u32(buf)

LittleEndian_read_f64(buf) == LittleEndian_read_u64(buf)

-----------------------------------------------------------------------------
(* Primitive codec.  Every operation returns its EncodingResult and the    *)
(* stream as the call leaves it.                                           *)

write_u8(s, value) ==
    LET buf == <<value>>
        w == StreamWrite(s, buf)
    IN  [res |-> process_encode_io_result(w.res), stream |-> w.stream]

write_i16(s, value) ==
    LET buf == LittleEndian_write_i16(value)
        w == StreamWrite(s, buf)
    IN  [res |-> process_encode_io_result(w.res), stream |-> w.stream]

write_u16(s, value) ==
    LET buf == LittleEndian_write_u16(value)
        w == StreamWrite(s, buf)
    IN  [res |-> process_encode_io_result(w.res), stream |-> w.stream]

write_i32(s, value) ==
    LET buf == LittleEndian_write_i32(value)
        w == StreamWrite(s, buf)
    IN  [res |-> process_encode_io_result(w.res), stream |-> w.stream]

write_u32(s, value) ==
    LET buf == LittleEndian_write_u32(value)
        w == StreamWrite(s, buf)
    IN  [res |-> process_encode_io_result(w.res), stream |-> w.stream]

write_i64(s, value) ==
    LET buf == LittleEndian_write_i64(value)
        w == StreamWrite(s, buf)
    IN  [res |-> process_encode_io_result(w.res), stream |-> w.stream]

write_u64(s, value) ==
    LET buf == LittleEndian_write_u64(value)
        w == StreamWrite(s, buf)
    IN  [res |-> process_encode_io_result(w.res), stream |-> w.stream]

write_f32(s, value) ==
    LET buf == LittleEndian_write_f32(value)
        w == StreamWrite(s, buf)
    IN  [res |-> process_encode_io_result(w.res), stream |-> w.stream]

write_f64(s, value) ==
    LET buf == LittleEndian_write_f64(value)
        w == StreamWrite(s, buf)
    IN  [res |-> process_encode_io_result(w.res), stream |-> w.stream]

\* read_bytes fills a caller's buffer of n bytes; buf is that buffer afterwards
read_bytes(s, n) ==
    LET r == StreamReadExact(s, n)
        p == process_decode_io_result(r.res)
    IN  [res |-> IF p.ok THEN Ok(n) ELSE p, stream |-> r.stream, buf |-> r.buf]

read_u8(s) ==
    LET r == StreamReadExact(s, 1)
        p == process_decode_io_result(r.res)
    IN  [res |-> IF p.ok THEN Ok(r.buf[1]) ELSE p, stream |-> r.stream]

read_i16(s) ==
    LET r == StreamReadExact(s, 2)
        p == process_decode_io_result(r.res)
    IN  [res |-> IF p.ok THEN Ok(LittleEndian_read_i16(r.buf)) ELSE p,
         stream |-> r.stream]

read_u16(s) ==
    LET r == StreamReadExact(s, 2)
        p == process_decode_io_result(r.res)
    IN  [res |-> IF p.ok THEN Ok(LittleEndian_read_u16(r.buf)) ELSE p,
         stream |-> r.stream]

\* mutant: the outcome of read_exact is dropped and the buffer decoded anyway
read_i32_IgnoresShortRead(s) ==
    LET r == StreamReadExact(s, 4)
    IN  [res |-> Ok(LittleEndian_read_i32(r.buf)), stream |-> r.stream]

read_i32(s) ==
    LET r == StreamReadExact(s, 4)
        p == process_decode_io_result(r.res)
    IN  [res |-> IF p.ok THEN Ok(LittleEndian_read_i32(r.buf)) ELSE p,
         stream |-> r.stream]

read_u32(s) ==
    LET r == StreamReadExact(s, 4)
        p == process_decode_io_result(r.res)
    IN  [res |-> IF p.ok THEN Ok(LittleEndian_read_u32(r.buf)) ELSE p,
         stream |-> r.stream]

read_i64(s) ==
    LET r == StreamReadExact(s, 8)
        p == process_decode_io_result(r.res)
    IN  [res |-> IF p.ok THEN Ok(LittleEndian_read_i64(r.buf)) ELSE p,
         stream |-> r.stream]

read_u64(s) ==
    LET r == StreamReadExact(s, 8)
        p == process_decode_io_result(r.res)
    IN  [res |-> IF p.ok THEN Ok(LittleEndian_read_u64(r.buf)) ELSE p,
         stream |-> r.stream]

read_f32(s) ==
    LET r == StreamReadExact(s, 4)
        p == process_decode_io_result(r.res)
    IN  [res |-> IF p.ok THEN Ok(LittleEndian_read_f32(r.buf)) ELSE p,
         stream |-> r.stream]

read_f64(s) ==
    LET r == StreamReadExact(s, 8)
        p == process_decode_io_result(r.res)
    IN  [res |-> IF p.ok THEN Ok(LittleEndian_read_f64(r.buf)) ELSE p,
         stream |-> r.stream]

ScalarTypes == {"u8", "i16", "u16", "i32", "u32", "i64", "u64", "f32", "f64"}

\* size_of::<T>() of a scalar type, the length of its buffer
Width(ty) ==
    CASE ty = "u8" -> 1
      [] ty \in {"i16", "u16"} -> 2
      [] ty \in {"i32", "u32", "f32"} -> 4
      [] ty \in {"i64", "u64", "f64"} -> 8

\* write_<ty>(stream, value)
WriteScalar(ty, s, value) ==
    CASE ty = "u8" -> write_u8(s, value)
      [] ty = "i16" -> write_i16(s, value)
      [] ty = "u16" -> write_u16(s, value)
      [] ty = "i32" -> write_i32(s, value)
      [] ty = "u32" -> write_u32(s, value)
      [] ty = "i64" -> write_i64(s, value)
      [] ty = "u64" -> write_u64(s, value)
      [] ty = "f32" -> write_f32(s, value)
      [] ty = "f64" -> write_f64(s, value)

\* read_<ty>(stream)
ReadScalar(ty, s) ==
    CASE ty = "u8" -> read_u8(s)
      [] ty = "i16" -> read_i16(s)
      [] ty = "u16" -> read_u16(s)
      [] ty = "i32" -> read_i32(s)
      [] ty = "u32" -> read_u32(s)
      [] ty = "i64" -> read_i64(s)
      [] ty = "u64" -> read_u64(s)
      [] ty = "f32" -> read_f32(s)
      [] ty = "f64" -> read_f64(s)

-----------------------------------------------------------------------------
(* The codec contract of an array element (trait BinaryEncoder<T>), for    *)
(* the scalar element types: byte_len is the type's width, encode and      *)
(* decode are the type's write_ and read_ operation.                       *)

ElemTypes == {"u8", "u16", "i32"}

byte_len(ty, value) == Width(ty)

encode(ty, s, value) == WriteScalar(ty, s, value)

decode(ty, s) == ReadScalar(ty, s)

-----------------------------------------------------------------------------
(* Array codec.  log is the sequence of results of the calls the operation *)
(* made on the stream, in order: the length prefix first, then one entry   *)
(* per element encode / decode attempted.                                  *)

\* values.len() as i32
AsI32(n) ==
    LET lo == n % 65536
        hi == (n \div 65536) % 65536
    IN  lo + 65536 * (IF hi >= 32768 THEN hi - 65536 ELSE hi)

RECURSIVE SumByteLen(_, _)
SumByteLen(ty, vec) ==
    IF vec = <<>> THEN 0 ELSE byte_len(ty, Head(vec)) + SumByteLen(ty, Tail(vec))

byte_len_array(ty, values) ==
    IF values.some THEN 4 + SumByteLen(ty, values.vec) ELSE 4

\* mutant: a failed element encode does not end the loop; the first error is
\* returned after the last element
RECURSIVE write_array_loop_Continues(_, _, _, _, _, _)
write_array_loop_Continues(s, ty, vec, i, size, log) ==
    IF i > Len(vec)
    THEN [res |-> IF \A j \in 1..Len(log) : log[j].ok
                  THEN Ok(size)
                  ELSE log[CHOOSE j \in 1..Len(log) :
                              ~log[j].ok /\ \A h \in 1..(j - 1) : log[h].ok],
          stream |-> s, log |-> log]
    ELSE LET e == encode(ty, s, vec[i])
         IN  write_array_loop_Continues(e.stream, ty, vec, i + 1, size + e.res.val,
                                        Append(log, e.res))

\* for value in values.iter() { size += value.encode(stream)?; }
RECURSIVE write_array_loop(_, _, _, _, _, _)
write_array_loop(s, ty, vec, i, size, log) ==
    IF i > Len(vec)
    THEN [res |-> Ok(size), stream |-> s, log |-> log]
    ELSE LET e == encode(ty, s, vec[i])
         IN  IF ~e.res.ok
             THEN [res |-> e.res, stream |-> e.stream, log |-> Append(log, e.res)]
             ELSE write_array_loop(e.stream, ty, vec, i + 1, size + e.res.val,
                                   Append(log, e.res))

\* mutant: an empty array is written as an absent one
write_array_EmptyAsNull(s, ty, values) ==
    IF values.some /\ values.vec # <<>>
    THEN LET p == write_i32(s, AsI32(Len(values.vec)))
         IN  IF ~p.res.ok
             THEN [res |-> p.res, stream |-> p.stream, log |-> <<p.res>>]
             ELSE write_array_loop(p.stream, ty, values.vec, 1, p.res.val, <<p.res>>)
    ELSE LET p == write_i32(s, -1)
         IN  IF ~p.res.ok
             THEN [res |-> p.res, stream |-> p.stream, log |-> <<p.res>>]
             ELSE [res |-> Ok(p.res.val), stream |-> p.stream, log |-> <<p.res>>]

write_array(s, ty, values) ==
    IF values.some
    THEN LET p == write_i32(s, AsI32(Len(values.vec)))
         IN  IF ~p.res.ok
             THEN [res |-> p.res, stream |-> p.stream, log |-> <<p.res>>]
             ELSE write_array_loop(p.stream, ty, values.vec, 1, p.res.val, <<p.res>>)
    ELSE LET p == write_i32(s, -1)
         IN  IF ~p.res.ok
             THEN [res |-> p.res, stream |-> p.stream, log |-> <<p.res>>]
             ELSE [res |-> Ok(p.res.val), stream |-> p.stream, log |-> <<p.res>>]

\* mutant: a failed element decode ends the loop and the elements decoded so
\* far are returned
RECURSIVE read_array_loop_KeepsPartial(_, _, _, _, _, _)
read_array_loop_KeepsPartial(s, ty, len, i, values, log) ==
    IF i >= len
    THEN [res |-> Ok(Some(values)), stream |-> s, log |-> log]
    ELSE LET d == decode(ty, s)
         IN  IF ~d.res.ok
             THEN [res |-> Ok(Some(values)), stream |-> d.stream,
                   log |-> Append(log, d.res)]
             ELSE read_array_loop_KeepsPartial(d.stream, ty, len, i + 1,
                                               Append(values, d.res.val),
                                               Append(log, d.res))

\* for _ in 0..len { values.push(T::decode(stream)?); }
RECURSIVE read_array_loop(_, _, _, _, _, _)
read_array_loop(s, ty, len, i, values, log) ==
    IF i >= len
    THEN [res |-> Ok(Some(values)), stream |-> s, log |-> log]
    ELSE LET d == decode(ty, s)
         IN  IF ~d.res.ok
             THEN [res |-> d.res, stream |-> d.stream, log |-> Append(log, d.res)]
             ELSE read_array_loop(d.stream, ty, len, i + 1, Append(values, d.res.val),
                                  Append(log, d.res))

\* mutant: a negative length other than -1 is a decoding error
read_array_RejectsNegative(s, ty) ==
    LET l == read_i32(s)
    IN  IF ~l.res.ok
        THEN [res |-> l.res, stream |-> l.stream, log |-> <<l.res>>]
        ELSE IF l.res.val = -1
        THEN [res |-> Ok(None), stream |-> l.stream, log |-> <<l.res>>]
        ELSE IF l.res.val < 0
        THEN [res |-> Err(BAD_DECODING_ERROR), stream |-> l.stream, log |-> <<l.res>>]
        ELSE read_array_loop(l.stream, ty, l.res.val, 0, <<>>, <<l.res>>)

read_array(s, ty) ==
    LET l == read_i32(s)
    IN  IF ~l.res.ok
        THEN [res |-> l.res, stream |-> l.stream, log |-> <<l.res>>]
        ELSE IF l.res.val = -1
        THEN [res |-> Ok(None), stream |-> l.stream, log |-> <<l.res>>]
        ELSE read_array_loop(l.stream, ty, l.res.val, 0, <<>>, <<l.res>>)

-----------------------------------------------------------------------------
(* Inputs *)

I32_MAX == 2147483647

I32_MIN == -2147483647 - 1

\* the values written: zero, the extremes, -1, and a value whose bytes all differ
Values(ty) ==
    CASE ty = "u8" -> {0, 1, 127, 128, 255}
      [] ty = "i16" -> {-32767 - 1, -1, 0, 258, 32767}
      [] ty = "u16" -> {0, 1, 256, 32768, 65535}
      [] ty = "i32" -> {I32_MIN, -2, -1, 0, 16909060, I32_MAX}
      [] ty = "u32" -> {<<0, 0>>, <<772, 258>>, <<0, 32768>>, <<65535, 65535>>}
      [] ty = "i64" -> {<<0, 0, 0, -32767 - 1>>, <<65535, 65535, 65535, -1>>,
                        <<0, 0, 0, 0>>, <<1800, 1286, 772, 258>>,
                        <<65535, 65535, 65535, 32767>>}
      [] ty = "u64" -> {<<0, 0, 0, 0>>, <<1800, 1286, 772, 258>>, <<0, 0, 0, 32768>>,
                        <<65535, 65535, 65535, 65535>>}
      \* 0.0, -0.0, 1.0, NaN, +Infinity, -Infinity
      [] ty = "f32" -> {<<0, 0>>, <<0, 32768>>, <<0, 16256>>, <<0, 32704>>,
                        <<0, 32640>>, <<0, 65408>>}
      [] ty = "f64" -> {<<0, 0, 0, 0>>, <<0, 0, 0, 32768>>, <<0, 0, 0, 16368>>,
                        <<0, 0, 0, 32760>>, <<0, 0, 0, 32752>>, <<0, 0, 0, 65520>>}

\* the elements arrays are built from
ElemValues(ty) ==
    CASE ty = "u8" -> {1, 255}
      [] ty = "u16" -> {1, 256}
      [] ty = "i32" -> {-1, 16909060}

\* Option<Vec<T>>: absent, empty, and every populated array up to MaxLen
Arrays(ty) ==
    {None} \cup {Some(v) : v \in UNION {[1..n -> ElemValues(ty)] : n \in 0..MaxLen}}

\* what a sink holds before the call
SinkPrefixes == {<<>>, <<170>>}

Sinks ==
    {Sink(b, FALSE, 0, "short") : b \in SinkPrefixes}
    \cup {Sink(b, TRUE, c, f) : b \in SinkPrefixes, c \in 1..MaxCap,
                                f \in {"short"} \cup WriteErrorKinds}

\* length prefixes of the byte strings read: absent, empty, counts, and
\* negative values other than -1
PrefixValues == {-1, 0, 1, 2, -2, -256, I32_MIN}

Bodies == {<<>>, <<1, 0, 0, 1>>, <<255, 255, 255, 255, 4, 3, 2, 1>>}

\* every byte string read: a length prefix and a body, cut at every length
SourceInputs ==
    UNION {{SubSeq(LittleEndian_write_i32(n) \o b, 1, k) : k \in 0..(4 + Len(b))} :
           n \in PrefixValues, b \in Bodies}

\* lengths of the buffers handed to read_bytes
BufLens == {1, 2, 4, 8}

-----------------------------------------------------------------------------
(* State: the stream the caller holds, and the last call made on it with   *)
(* its arguments, its result and the stream as it was before the call.     *)
(* from is the write call that produced the bytes being read, if any.      *)

NoCall == [op |-> "none"]

Call(op, ty, arg, r, pre, from) ==
    [op |-> op, ty |-> ty, arg |-> arg, res |-> r.res, log |-> r.log, buf |-> r.buf,
     pre |-> pre, from |-> from]

\* a reader the caller still reads from: a failed read ends its use
Readable ==
    /\ stream.kind = "source"
    /\ IF call.op = "open" THEN TRUE ELSE call.res.ok

Init ==
    /\ stream = [kind |-> "closed"]
    /\ call = NoCall

\* the caller creates a writer
OpenSink ==
    /\ stream.kind = "closed"
    /\ \E s \in Sinks : stream' = s
    /\ call' = [op |-> "open"]

\* the caller creates a reader over received bytes
OpenSource ==
    /\ stream.kind = "closed"
    /\ \E d \in SourceInputs, e \in ReadErrorKinds : stream' = Source(d, 0, e)
    /\ call' = [op |-> "open", from |-> NoCall]

\* the caller reads back what the last call wrote, from where that call began
Rewind ==
    /\ stream.kind = "sink"
    /\ call.op \in {"write", "write_array"}
    /\ stream' = Source(stream.buf, Len(call.pre.buf), "UnexpectedEof")
    /\ call' = [op |-> "open", from |-> call]

\* write_<ty>(stream, value)
Write(ty) ==
    /\ stream.kind = "sink"
    /\ call.op = "open"
    /\ \E v \in Values(ty) :
          LET r == WriteScalar(ty, stream, v)
          IN  /\ stream' = r.stream
              /\ call' = Call("write", ty, v, [res |-> r.res, log |-> <<>>, buf |-> <<>>],
                              stream, NoCall)

\* write_array(stream, values) over elements of type ty
WriteArray(ty) ==
    /\ stream.kind = "sink"
    /\ call.op = "open"
    /\ \E v \in Arrays(ty) :
          LET r == write_array(stream, ty, v)
          IN  /\ stream' = r.stream
              /\ call' = Call("write_array", ty, v,
                              [res |-> r.res, log |-> r.log, buf |-> <<>>], stream, NoCall)

\* read_<ty>(stream)
Read(ty) ==
    /\ Readable
    /\ LET r == ReadScalar(ty, stream)
       IN  /\ stream' = r.stream
           /\ call' = Call("read", ty, 0, [res |-> r.res, log |-> <<>>, buf |-> <<>>],
                           stream, call.from)

\* read_bytes(stream, buf) with a buffer of n bytes
ReadBytes(n) ==
    /\ Readable
    /\ LET r == read_bytes(stream, n)
       IN  /\ stream' = r.stream
           /\ call' = Call("read_bytes", "u8", n,
                           [res |-> r.res, log |-> <<>>, buf |-> r.buf], stream, call.from)

\* read_array(stream) over elements of type ty
ReadArray(ty) ==
    /\ Readable
    /\ LET r == read_array(stream, ty)
       IN  /\ stream' = r.stream
           /\ call' = Call("read_array", ty, 0,
                           [res |-> r.res, log |-> r.log, buf |-> <<>>], stream, call.from)

Next ==
    \/ OpenSink
    \/ OpenSource
    \/ Rewind
    \/ \E ty \in ScalarTypes : Write(ty)
    \/ \E ty \in ElemTypes : WriteArray(ty)
    \/ \E ty \in ScalarTypes : Read(ty)
    \/ \E n \in BufLens : ReadBytes(n)
    \/ \E ty \in ElemTypes : ReadArray(ty)

Spec == Init /\ [][Next]_vars

-----------------------------------------------------------------------------
(* Vocabulary of the properties *)

\* the bytes the last write call appended to its stream
Appended == SubSeq(stream.buf, Len(call.pre.buf) + 1, Len(stream.buf))

\* the bytes a read call found in front of it
Available(c) == SubSeq(c.pre.data, c.pre.pos + 1, Len(c.pre.data))

\* the last call read, first thing, the bytes that the write call `from` produced
\* on a stream that accepts every write
ReadsBack(rop, wop) ==
    /\ call.op = rop
    /\ call.from.op = wop
    /\ call.from.ty = call.ty
    /\ ~call.from.pre.bounded
    /\ call.pre.pos = Len(call.from.pre.buf)

IntegerTypes == {"u8", "i16", "u16", "i32", "u32", "i64", "u64"}

SignedTypes == {"i16", "i32", "i64"}

\* the integer a string of at most four bytes denotes, least significant first,
\* the sign taken from the top bit of the last byte for a signed type
RECURSIVE Denoted(_, _)
Denoted(b, signed) ==
    IF Len(b) = 1
    THEN IF signed /\ b[1] >= 128 THEN b[1] - 256 ELSE b[1]
    ELSE b[1] + 256 * Denoted(Tail(b), signed)

\* b is the little-endian two's-complement representation of value v of type ty
Represents(b, ty, v) ==
    /\ Len(b) = Width(ty)
    /\ \A i \in 1..Len(b) : b[i] \in 0..255
    /\ IF ty \in {"u8", "i16", "u16", "i32"}
       THEN Denoted(b, ty \in SignedTypes) = v
       ELSE /\ Len(v) * 2 = Len(b)
            /\ \A j \in 1..Len(v) :
                  Denoted(SubSeq(b, 2 * j - 1, 2 * j), ty \in SignedTypes /\ j = Len(v))
                      = v[j]

\* known encodings
KnownBytes(ty, v, b) ==
    /\ (ty = "u8" => (v = 255 => b = <<255>>))
    /\ (ty = "i16" => /\ (v = -1 => b = <<255, 255>>)
                      /\ (v = 258 => b = <<2, 1>>)
                      /\ (v = 32767 => b = <<255, 127>>)
                      /\ (v = -32768 => b = <<0, 128>>))
    /\ (ty = "u16" => /\ (v = 256 => b = <<0, 1>>)
                      /\ (v = 65535 => b = <<255, 255>>))
    /\ (ty = "i32" => /\ (v = -1 => b = <<255, 255, 255, 255>>)
                      /\ (v = 16909060 => b = <<4, 3, 2, 1>>)
                      /\ (v = I32_MIN => b = <<0, 0, 0, 128>>)
                      /\ (v = I32_MAX => b = <<255, 255, 255, 127>>))
    /\ (ty = "u32" => /\ (v = <<772, 258>> => b = <<4, 3, 2, 1>>)
                      /\ (v = <<65535, 65535>> => b = <<255, 255, 255, 255>>))
    /\ (ty = "i64" => /\ (v = <<1800, 1286, 772, 258>> => b = <<8, 7, 6, 5, 4, 3, 2, 1>>)
                      /\ (v = <<0, 0, 0, -32768>> => b = <<0, 0, 0, 0, 0, 0, 0, 128>>)
                      /\ (v = <<65535, 65535, 65535, -1>>
                            => b = <<255, 255, 255, 255, 255, 255, 255, 255>>))
    /\ (ty = "u64" => /\ (v = <<1800, 1286, 772, 258>> => b = <<8, 7, 6, 5, 4, 3, 2, 1>>)
                      /\ (v = <<0, 0, 0, 32768>> => b = <<0, 0, 0, 0, 0, 0, 0, 128>>))

\* the concatenated little-endian encodings of the elements of vec
RECURSIVE IsElements(_, _, _)
IsElements(b, ty, vec) ==
    IF vec = <<>>
    THEN b = <<>>
    ELSE /\ Len(b) >= Width(ty)
         /\ Represents(SubSeq(b, 1, Width(ty)), ty, Head(vec))
         /\ IsElements(SubSeq(b, Width(ty) + 1, Len(b)), ty, Tail(vec))

-----------------------------------------------------------------------------
(* Properties *)

\* C1: an optional array written by write_array to a stream that accepts every
\* write, then read by read_array from the bytes produced, decodes
\* successfully to the same value: absent to absent, present-empty to
\* present-empty, a populated array to the same elements in the same order.
C1_ArrayRoundTrip ==
    ReadsBack("read_array", "write_array") =>
        /\ call.from.res.ok
        /\ call.res.ok
        /\ call.res.val.some = call.from.arg.some
        /\ call.res.val.vec = call.from.arg.vec

C1_Witness ==
    /\ ReadsBack("read_array", "write_array")
    /\ call.from.pre.buf = <<>>
    /\ call.from.arg = Some(<<>>)
    /\ call.res = Ok(Some(<<>>))

\* C2: byte_len_array(v) is the number of bytes a successful write_array(stream, v)
\* appended and the count it returned; 4 for an absent array.
C2_ByteLenIsBytesWritten ==
    (call.op = "write_array" /\ call.res.ok) =>
        /\ byte_len_array(call.ty, call.arg) = Len(Appended)
        /\ byte_len_array(call.ty, call.arg) = call.res.val
        /\ (~call.arg.some => Len(Appended) = 4)

\* C3: on a stream that accepts every write, write_array appends FF FF FF FF and
\* nothing else for an absent array (the bytes of write_i32(-1)), and for a
\* present array of n elements the 4-byte little-endian n, then the elements'
\* encodings in index order and nothing between or after them;
\* [1, 256] of u16 gives 02 00 00 00 01 00 00 01.
C3_ArrayWireFormat ==
    /\ (call.op = "write_array" /\ ~call.pre.bounded) =>
          IF call.arg.some
          THEN /\ Len(Appended) >= 4
               /\ SubSeq(Appended, 1, 4) = <<Len(call.arg.vec), 0, 0, 0>>
               /\ IsElements(SubSeq(Appended, 5, Len(Appended)), call.ty, call.arg.vec)
               /\ (call.ty = "u16" /\ call.arg.vec = <<1, 256>>
                     => Appended = <<2, 0, 0, 0, 1, 0, 0, 1>>)
          ELSE Appended = <<255, 255, 255, 255>>
    /\ (call.op = "write" /\ ~call.pre.bounded /\ call.ty = "i32") =>
          (call.arg = -1 => Appended = <<255, 255, 255, 255>>)

C3_Witness ==
    /\ call.op = "write_array"
    /\ ~call.pre.bounded
    /\ call.ty = "u16"
    /\ call.arg = Some(<<1, 256>>)
    /\ Appended = <<2, 0, 0, 0, 1, 0, 0, 1>>

\* C4: for every integer scalar type, a value written by write_<type> to a stream
\* that accepts every write is appended as its little-endian two's-complement
\* bytes, least significant first, and read_<type> on those bytes returns it.
C4_ScalarRoundTrip ==
    /\ (call.op = "write" /\ call.ty \in IntegerTypes /\ ~call.pre.bounded) =>
          /\ call.res = Ok(Width(call.ty))
          /\ Represents(Appended, call.ty, call.arg)
          /\ KnownBytes(call.ty, call.arg, Appended)
    /\ (ReadsBack("read", "write") /\ call.ty \in IntegerTypes) =>
          call.res = Ok(call.from.arg)

C4_Witness ==
    /\ ReadsBack("read", "write")
    /\ call.ty = "i64"
    /\ call.from.arg = <<0, 0, 0, -32768>>
    /\ call.res = Ok(<<0, 0, 0, -32768>>)

\* the width a read call asks for
Wanted(c) == IF c.op = "read_bytes" THEN c.arg ELSE Width(c.ty)

\* C5: read_<type>, and read_bytes with a buffer of w bytes, on a stream holding
\* fewer than w bytes returns BadDecoding and no value; with at least w bytes
\* it succeeds and consumes exactly w bytes.
C5_ShortReadFails ==
    call.op \in {"read", "read_bytes"} =>
        IF Len(Available(call)) < Wanted(call)
        THEN call.res = Err(BAD_DECODING_ERROR)
        ELSE /\ call.res.ok
             /\ stream.pos = call.pre.pos + Wanted(call)
             /\ (call.op = "read_bytes" =>
                    /\ call.res.val = call.arg
                    /\ call.buf = SubSeq(Available(call), 1, call.arg))

C5_Witness ==
    /\ call.op = "read"
    /\ call.ty = "i32"
    /\ Len(Available(call)) = 3
    /\ call.res = Err(BAD_DECODING_ERROR)

\* the elements of type ty that the bytes after the length prefix can supply
WholeElements(c) == (Len(Available(c)) - 4) \div Width(c.ty)

\* C6: when read_array has read a length prefix n >= 1 and the decode of element
\* k < n fails, it returns BadDecoding, not an array of the k elements decoded,
\* and the failing decode is the last one it attempts.
C6_ElementFailureAborts ==
    (/\ call.op = "read_array"
     /\ call.log[1].ok
     /\ call.log[1].val >= 1
     /\ WholeElements(call) < call.log[1].val) =>
        /\ call.res = Err(BAD_DECODING_ERROR)
        /\ Len(call.log) = WholeElements(call) + 2
        /\ \A i \in 1..(Len(call.log) - 1) : call.log[i].ok
        /\ ~call.log[Len(call.log)].ok

C6_Witness ==
    /\ call.op = "read_array"
    /\ call.ty = "u16"
    /\ call.log[1] = Ok(2)
    /\ Len(call.log) = 3
    /\ ~call.res.ok

\* the number of elements write_array was given
Count(values) == IF values.some THEN Len(values.vec) ELSE 0

RECURSIVE SumVal(_)
SumVal(log) == IF log = <<>> THEN 0 ELSE Head(log).val + SumVal(Tail(log))

\* C7: write_array stops at the first failing step and returns its error: a failed
\* prefix write is followed by no element encode, a failed encode of element k
\* by no encode of a later element and by no second attempt, and only what
\* the steps before it wrote is on the stream; write_array succeeds only when
\* the prefix write and every element encode succeeded.
C7_WriteArrayAborts ==
    call.op = "write_array" =>
        /\ Len(call.log) >= 1
        /\ Len(call.log) <= 1 + Count(call.arg)
        /\ \A i \in 1..(Len(call.log) - 1) : call.log[i].ok
        /\ call.res.ok <=> (call.log[Len(call.log)].ok
                            /\ Len(call.log) = 1 + Count(call.arg))
        /\ ~call.res.ok => /\ call.res = call.log[Len(call.log)]
                           /\ Len(Appended) = SumVal(SubSeq(call.log, 1, Len(call.log) - 1))

C7_Witness ==
    /\ call.op = "write_array"
    /\ Count(call.arg) = 2
    /\ Len(call.log) = 2
    /\ call.log[1].ok
    /\ ~call.res.ok

\* C8: a write operation that fails reports BadEncoding, a read operation that
\* fails reports BadDecoding, whatever io::ErrorKind the stream failed with,
\* and no operation reports anything else.
C8_ErrorsByDirection ==
    (call.op \in {"write", "write_array", "read", "read_bytes", "read_array"}
        /\ ~call.res.ok) =>
        /\ call.op \in {"write", "write_array"} => call.res = Err(BAD_ENCODING_ERROR)
        /\ call.op \in {"read", "read_bytes", "read_array"} =>
              call.res = Err(BAD_DECODING_ERROR)

C8_Witness ==
    /\ call.op = "write_array"
    /\ call.pre.fault = "BrokenPipe"
    /\ Len(call.log) = 3
    /\ call.res = Err(BAD_ENCODING_ERROR)

\* C9: a write_<type> of width w that returns success returns w and has appended
\* exactly w bytes, also on a stream whose write call may accept fewer bytes
\* than offered.
C9_SuccessWritesWholeBuffer ==
    (call.op = "write" /\ call.res.ok) =>
        /\ call.res.val = Width(call.ty)
        /\ Len(Appended) = Width(call.ty)

\* the four bytes in front of a read call are a length prefix below -1
NegativePrefix(c) ==
    /\ Len(Available(c)) >= 4
    /\ Available(c)[4] >= 128
    /\ SubSeq(Available(c), 1, 4) # <<255, 255, 255, 255>>

\* C10: a length prefix that is negative and not -1 makes read_array return a
\* present array of no elements, with only the 4 prefix bytes consumed and
\* no element decoded.
C10_NegativePrefixIsEmpty ==
    (call.op = "read_array" /\ NegativePrefix(call)) =>
        /\ call.res = Ok(Some(<<>>))
        /\ stream.pos = call.pre.pos + 4
        /\ Len(call.log) = 1

C10_Witness ==
    /\ call.op = "read_array"
    /\ Len(Available(call)) > 4
    /\ SubSeq(Available(call), 1, 4) = <<0, 0, 0, 128>>
    /\ call.res = Ok(Some(<<>>))

====
